---- MODULE Spec2Model ----
(***************************************************************************)
(* Model of Swatch.py: the interactive swatch-chart generator.  One run    *)
(* of create_swatch_pdf reads the document size, the seven colour          *)
(* selections, the step, computes the start values of the variable axes,   *)
(* paints the 11 x 11 grid, draws the title and the axis labels, and saves.*)
(*                                                                         *)
(* Numbers.  Ink percentages are integers in tenths of a percent (the      *)
(* base 0.7 of a spot colour times an integer tint is a whole number of    *)
(* tenths).  Lengths are exact rationals: a length of p points is the      *)
(* integer p * 22 * 10^8, held in two limbs (hi * LimbBase + lo), so that  *)
(* the divisions by 11 and by 2 of the source are exact.  Floating-point   *)
(* rounding of the Python build is modelled for overprint_layer alone      *)
(* (overprint_layer_double); elsewhere the arithmetic is exact.            *)
(***************************************************************************)
EXTENDS Integers, Sequences, FiniteSets, TLC

VARIABLES
    answers,                 \* what the user types, fixed for the run
    pc,                      \* position in create_swatch_pdf
    colour_idx,              \* index into colour_order of the next prompt
    docwidthmm, docheightmm, \* lines 85-86
    colour_inputs,           \* line 98: name -> [value, median]
    variable_colours_data,   \* line 93: sequence of [name, median_tint, start_val]
    step_val,                \* line 125
    messages,                \* informational lines printed (line 122)
    rects,                   \* the fill-rectangle commands, by <<row, col>>
    texts,                   \* the text commands, in drawing order
    op                       \* the last call of overprint_layer: [cur, base, tint, new]

vars == <<answers, pc, colour_idx, docwidthmm, docheightmm, colour_inputs,
          variable_colours_data, step_val, messages, rects, texts, op>>

----------------------------------------------------------------------------
(* Exact lengths in two limbs.                                             *)

LimbBase == 1000 * 1000

Norm(h, l) == [hi |-> h + (l \div LimbBase), lo |-> l % LimbBase]

Add(a, b) == Norm(a.hi + b.hi, a.lo + b.lo)

Neg(a) == Norm(0 - a.hi, 0 - a.lo)

Sub(a, b) == Add(a, Neg(b))

\* n * a for a small integer n >= 0
Scale(n, a) == Norm(n * a.hi, n * a.lo)

\* a / n, exact when n divides a (n is 2 or 11 and every length is a multiple of 22)
Div(a, n) == [hi |-> a.hi \div n, lo |-> (((a.hi % n) * LimbBase) + a.lo) \div n]

Less(a, b) == (a.hi < b.hi) \/ (a.hi = b.hi /\ a.lo < b.lo)

Leq(a, b) == (a = b) \/ Less(a, b)

Zero == [hi |-> 0, lo |-> 0]

\* the length whole.frac8 points, frac8 being eight decimal digits
Pts(whole, frac8) == Scale(22, Norm(whole * 100, frac8))

----------------------------------------------------------------------------
(* Constants of the program, lines 7-24.                                   *)

MM_TO_POINTS == Pts(2, 83464567)
BOX_AREA_HORIZ_MARGIN_TOTAL == Pts(198, 42519700)
BOX_AREA_VERT_MARGIN_TOTAL == Pts(198, 42519700)
X_REF_START_OFFSET == Pts(42, 51968500)
Y_REF_START_OFFSET == Pts(42, 51968500)
BOX_SPACING == Pts(11, 33858270)

colour_order == <<"Cyan", "Magenta", "Yellow", "Black", "Orange", "Violet", "Grey">>

Colours == {colour_order[i] : i \in 1..Len(colour_order)}

\* base CMYK of each channel at 100% tint, in tenths
CMYK_DEFINITIONS ==
    [n \in Colours |->
        CASE n = "Cyan"    -> <<10, 0, 0, 0>>
          [] n = "Magenta" -> <<0, 10, 0, 0>>
          [] n = "Yellow"  -> <<0, 0, 10, 0>>
          [] n = "Black"   -> <<0, 0, 0, 10>>
          [] n = "Orange"  -> <<0, 7, 7, 0>>
          [] n = "Violet"  -> <<7, 7, 0, 0>>
          [] n = "Grey"    -> <<0, 0, 0, 7>>]

\* 100 percent, in tenths of a percent
Cap == 1000

Min(a, b) == IF a < b THEN a ELSE b
Max(a, b) == IF a > b THEN a ELSE b

\* overprint_layer without the cap of lines 75-78
overprint_layer_uncapped(current_cmyk_percent, layer_cmyk_base, layer_tint_percent) ==
    [i \in 1..4 |-> current_cmyk_percent[i] + layer_cmyk_base[i] * layer_tint_percent]

\* lines 57-79; current in tenths of a percent, base in tenths, tint in percent
overprint_layer(current_cmyk_percent, layer_cmyk_base, layer_tint_percent) ==
    [i \in 1..4 |->
        Min(Cap, current_cmyk_percent[i] + layer_cmyk_base[i] * layer_tint_percent)]

----------------------------------------------------------------------------
(* The user's answers.  A selection is the literal 'v' or a tint 0..100    *)
(* (get_colour_input, lines 42-55).                                        *)

Variable == [kind |-> "v", tint |-> 0]
Fixed(t) == [kind |-> "tint", tint |-> t]

IsV(value) == value.kind = "v"

\* names of the channels answered 'v', in prompt order
RequestedVariable(sel) ==
    SelectSeq(colour_order, LAMBDA n : IsV(sel[n]))

----------------------------------------------------------------------------
(* create_swatch_pdf, lines 81-341.                                        *)

\* lines 85-91
DocumentSetup ==
    /\ pc = "setup"
    /\ docwidthmm' = answers.width
    /\ docheightmm' = answers.height
    /\ pc' = "colours"
    /\ UNCHANGED <<answers, colour_idx, colour_inputs, variable_colours_data,
                   step_val, messages, rects, texts, op>>

docwidthpts == Scale(docwidthmm, MM_TO_POINTS)
docheightpts == Scale(docheightmm, MM_TO_POINTS)

\* line 113: at most this many channels become axes
VariableLimit == 2

\* a refused 'v' left in place as the selection
DowngradedValue_Kept == Variable

\* line 123: the selection of a channel refused as variable
DowngradedValue == Fixed(0)

\* one iteration of the loop of lines 101-123
EnterColour ==
    /\ pc = "colours"
    /\ LET colour_name == colour_order[colour_idx]
           tint_input == answers.sel[colour_name]
           accepted == IsV(tint_input) /\ Len(variable_colours_data) < VariableLimit
           refused == IsV(tint_input) /\ ~(Len(variable_colours_data) < VariableLimit)
           median_tint == answers.median[Len(variable_colours_data) + 1]
       IN /\ colour_inputs' =
                colour_inputs @@
                (colour_name :>
                    [value |-> IF refused THEN DowngradedValue ELSE tint_input,
                     median |-> IF accepted THEN median_tint ELSE 0])
          /\ variable_colours_data' =
                IF accepted
                THEN Append(variable_colours_data,
                            [name |-> colour_name, median_tint |-> median_tint,
                             start_val |-> 0])
                ELSE variable_colours_data
          /\ messages' =
                IF refused
                THEN Append(messages, [info |-> "treated as 0%", name |-> colour_name])
                ELSE messages
    /\ colour_idx' = colour_idx + 1
    /\ pc' = IF colour_idx = Len(colour_order) THEN "step" ELSE "colours"
    /\ UNCHANGED <<answers, docwidthmm, docheightmm, step_val, rects, texts, op>>

\* line 125
EnterStep ==
    /\ pc = "step"
    /\ step_val' = answers.step
    /\ pc' = "starts"
    /\ UNCHANGED <<answers, colour_idx, docwidthmm, docheightmm, colour_inputs,
                   variable_colours_data, messages, rects, texts, op>>

\* StartVal with the upper override taking half the span
StartVal_HalfSpan(median, step) ==
    LET start0 == median - (step * 5)
        start1 == IF (step * 5) + median > 100 THEN 100 - (step * 5) ELSE start0
    IN IF (median - (step * 5)) < 0 THEN 0 ELSE start1

\* StartVal without the upper override of lines 133-134
StartVal_NoUpper(median, step) ==
    IF (median - (step * 5)) < 0 THEN 0 ELSE median - (step * 5)

\* lines 129-136: two independent overrides, the later one wins
StartVal(median, step) ==
    LET start0 == median - (step * 5)
        start1 == IF (step * 5) + median > 100 THEN 100 - (step * 10) ELSE start0
    IN IF (median - (step * 5)) < 0 THEN 0 ELSE start1

\* lines 128-137
CalcStartValues ==
    /\ pc = "starts"
    /\ variable_colours_data' =
          [i \in 1..Len(variable_colours_data) |->
              [variable_colours_data[i] EXCEPT
                  !.start_val = StartVal(variable_colours_data[i].median_tint, step_val)]]
    /\ pc' = "grid"
    /\ UNCHANGED <<answers, colour_idx, docwidthmm, docheightmm, colour_inputs,
                   step_val, messages, rects, texts, op>>

\* lines 140-141
box_width == Div(Sub(docwidthpts, BOX_AREA_HORIZ_MARGIN_TOTAL), 11)
box_height == Div(Sub(docheightpts, BOX_AREA_VERT_MARGIN_TOTAL), 11)

GridRange == 0..10

Clamp(v) == Max(0, Min(100, v))

\* lines 148-159: the fixed process colours, each added to its own component
ProcessLayer(ci) ==
    LET Tint(n) == IF ~IsV(ci[n].value) /\ ci[n].value.tint > 0
                   THEN ci[n].value.tint ELSE 0
    IN [i \in 1..4 |-> Min(Cap, 0 + 10 * Tint(colour_order[i]))]

\* lines 162-167: the fixed spot colours that are overprinted, in order
SpotLayers(ci) ==
    LET Layer(n) == [base |-> CMYK_DEFINITIONS[n], tint |-> ci[n].value.tint]
        Used(n) == ~IsV(ci[n].value) /\ ci[n].value.tint > 0
        spots == SelectSeq(<<"Orange", "Violet", "Grey">>, Used)
    IN [i \in 1..Len(spots) |-> Layer(spots[i])]

\* lines 170-176
Var1Layer(vcd, step, i_col) ==
    IF Len(vcd) > 0
    THEN <<[base |-> CMYK_DEFINITIONS[vcd[1].name],
            tint |-> Clamp(vcd[1].start_val + i_col * step)]>>
    ELSE <<>>

\* Var2Layer reading the first axis' record
Var2Layer_FirstAxis(vcd, step, k_row) ==
    IF Len(vcd) > 1
    THEN <<[base |-> CMYK_DEFINITIONS[vcd[2].name],
            tint |-> Clamp(vcd[1].start_val + k_row * step)]>>
    ELSE <<>>

\* lines 179-185
Var2Layer(vcd, step, k_row) ==
    IF Len(vcd) > 1
    THEN <<[base |-> CMYK_DEFINITIONS[vcd[2].name],
            tint |-> Clamp(vcd[2].start_val + k_row * step)]>>
    ELSE <<>>

\* the calls of overprint_layer made for one cell, each with its argument and result
RECURSIVE CallLog(_, _)
CallLog(cur, layers) ==
    IF layers = <<>> THEN <<>>
    ELSE LET new == overprint_layer(cur, Head(layers).base, Head(layers).tint)
         IN <<[cur |-> cur, base |-> Head(layers).base,
               tint |-> Head(layers).tint, new |-> new]>>
            \o CallLog(new, Tail(layers))

CellCalls(ci, vcd, step, k_row, i_col) ==
    CallLog(ProcessLayer(ci),
            SpotLayers(ci) \o Var1Layer(vcd, step, i_col) \o Var2Layer(vcd, step, k_row))

\* lines 147-191: current_cell_cmyk_percent after the last layer
CellColour(ci, vcd, step, k_row, i_col) ==
    LET calls == CellCalls(ci, vcd, step, k_row, i_col)
    IN IF calls = <<>> THEN ProcessLayer(ci) ELSE calls[Len(calls)].new

\* box_x_bl without the gap between boxes
box_x_bl_NoGap(i_col) == Add(X_REF_START_OFFSET, Scale(i_col, box_width))

\* lines 199-200
box_x_bl(i_col) == Add(X_REF_START_OFFSET, Scale(i_col, Add(box_width, BOX_SPACING)))
box_y_bl(k_row) == Add(Y_REF_START_OFFSET, Scale(k_row, Add(box_height, BOX_SPACING)))

\* lines 144-202: the whole double loop; one c.rect per cell
DrawGrid ==
    /\ pc = "grid"
    /\ rects' =
          [rc \in GridRange \X GridRange |->
              [cmyk |-> CellColour(colour_inputs, variable_colours_data, step_val,
                                   rc[1], rc[2]),
               x |-> box_x_bl(rc[2]), y |-> box_y_bl(rc[1]),
               width |-> box_width, height |-> box_height]]
    /\ op' = CellCalls(colour_inputs, variable_colours_data, step_val, 10, 10)
    /\ pc' = "title"
    /\ UNCHANGED <<answers, colour_idx, docwidthmm, docheightmm, colour_inputs,
                   variable_colours_data, step_val, messages, texts>>

----------------------------------------------------------------------------
(* Text.  A string is the sequence of its pieces; the piece " " is white   *)
(* space, every other piece is a run of non-blank characters.              *)

RECURSIVE LStrip(_)
LStrip(t) == IF t # <<>> /\ Head(t) = " " THEN LStrip(Tail(t)) ELSE t

RECURSIVE RStrip(_)
RStrip(t) ==
    IF t # <<>> /\ t[Len(t)] = " " THEN RStrip(SubSeq(t, 1, Len(t) - 1)) ELSE t

\* str.strip()
Strip(t) == RStrip(LStrip(t))

RECURSIVE Concat(_)
Concat(ss) == IF ss = <<>> THEN <<>> ELSE Head(ss) \o Concat(Tail(ss))

\* FullTitle listing the channels of tint 0 too
FullTitle_ZeroEntries(ci, typed) ==
    LET title_str == IF typed = <<>> THEN <<"Swatch", " ", "Chart">> ELSE typed
        Pos(n) == ~IsV(ci[n].value) /\ ci[n].value.tint > 0
        prefix == IF Pos("Orange") \/ Pos("Violet") \/ Pos("Grey")
                  THEN <<"VOG", " ">> ELSE <<>>
        Entry(n) == IF ~IsV(ci[n].value) /\ ci[n].value.tint >= 0
                    THEN <<" ", n, "=", ToString(ci[n].value.tint), "%">>
                    ELSE <<>>
    IN prefix \o title_str
       \o Concat([i \in 1..Len(colour_order) |-> Entry(colour_order[i])])

\* lines 205-216
FullTitle(ci, typed) ==
    LET title_str == IF typed = <<>> THEN <<"Swatch", " ", "Chart">> ELSE typed
        Pos(n) == ~IsV(ci[n].value) /\ ci[n].value.tint > 0
        prefix == IF Pos("Orange") \/ Pos("Violet") \/ Pos("Grey")
                  THEN <<"VOG", " ">> ELSE <<>>
        Entry(n) == IF Pos(n)
                    THEN <<" ", n, "=", ToString(ci[n].value.tint), "%">>
                    ELSE <<>>
    IN prefix \o title_str
       \o Concat([i \in 1..Len(colour_order) |-> Entry(colour_order[i])])

\* lines 205-222
DrawTitle ==
    /\ pc = "title"
    /\ texts' = Append(texts,
          [cmd |-> "drawString", role |-> "title",
           text |-> Strip(FullTitle(colour_inputs, answers.title)),
           x |-> X_REF_START_OFFSET, y |-> Sub(docheightpts, Pts(15, 0)), rotate |-> 0])
    /\ pc' = "labels"
    /\ UNCHANGED <<answers, colour_idx, docwidthmm, docheightmm, colour_inputs,
                   variable_colours_data, step_val, messages, rects, op>>

\* lines 231-243: the axis-1 name and its 11 values
XLabels(vcd, step) ==
    IF Len(vcd) > 0
    THEN <<[cmd |-> "drawCentredString", role |-> "x-name", text |-> <<vcd[1].name>>,
            x |-> Div(docwidthpts, 2), y |-> Sub(docheightpts, Pts(27, 0)),
            rotate |-> 0]>>
         \o [k \in 1..11 |->
               [cmd |-> "drawCentredString", role |-> "x-value",
                text |-> <<ToString(Clamp(vcd[1].start_val + (k - 1) * step))>>,
                x |-> Add(Add(X_REF_START_OFFSET,
                              Scale(k - 1, Add(box_width, BOX_SPACING))),
                          Div(box_width, 2)),
                y |-> Sub(docheightpts, Pts(42, 0)), rotate |-> 0]]
    ELSE <<>>

\* line 332-337: the baseline of the value label of row k_row
YLabelBaseline(k_row) ==
    LET js_y_text_top_start == Pts(52, 51968500)
        y_top_for_this_label ==
            Add(js_y_text_top_start, Scale(k_row, Add(box_height, BOX_SPACING)))
        final_y_rl == Sub(docheightpts, y_top_for_this_label)
    IN Sub(final_y_rl, Pts(4, 0))

\* YLabels drawn as soon as one channel is variable
YLabels_AnyAxis(vcd, step) ==
    IF Len(vcd) > 0
    THEN <<[cmd |-> "drawCentredString", role |-> "y-name",
            text |-> <<vcd[Len(vcd)].name>>,
            x |-> Pts(7, 0), y |-> Div(docheightpts, 2), rotate |-> 90]>>
         \o [k \in 1..11 |->
               [cmd |-> "drawRightString", role |-> "y-value",
                text |-> <<ToString(Clamp(vcd[Len(vcd)].start_val + (k - 1) * step))>>,
                x |-> Pts(22, 51968500), y |-> YLabelBaseline(k - 1), rotate |-> 0]]
    ELSE <<>>

\* lines 250-337: the axis-2 name, rotated, and its 11 values
YLabels(vcd, step) ==
    IF Len(vcd) > 1
    THEN <<[cmd |-> "drawCentredString", role |-> "y-name", text |-> <<vcd[2].name>>,
            x |-> Pts(7, 0), y |-> Div(docheightpts, 2), rotate |-> 90]>>
         \o [k \in 1..11 |->
               [cmd |-> "drawRightString", role |-> "y-value",
                text |-> <<ToString(Clamp(vcd[2].start_val + (k - 1) * step))>>,
                x |-> Pts(22, 51968500), y |-> YLabelBaseline(k - 1), rotate |-> 0]]
    ELSE <<>>

\* lines 224-337
DrawLabels ==
    /\ pc = "labels"
    /\ texts' = texts \o XLabels(variable_colours_data, step_val)
                      \o YLabels(variable_colours_data, step_val)
    /\ pc' = "save"
    /\ UNCHANGED <<answers, colour_idx, docwidthmm, docheightmm, colour_inputs,
                   variable_colours_data, step_val, messages, rects, op>>

\* lines 340-341
Save ==
    /\ pc = "save"
    /\ pc' = "done"
    /\ UNCHANGED <<answers, colour_idx, docwidthmm, docheightmm, colour_inputs,
                   variable_colours_data, step_val, messages, rects, texts, op>>

Next ==
    \/ DocumentSetup
    \/ EnterColour
    \/ EnterStep
    \/ CalcStartValues
    \/ DrawGrid
    \/ DrawTitle
    \/ DrawLabels
    \/ Save

----------------------------------------------------------------------------
(* The runs explored: the answers of the user, drawn from three families.  *)

\* the fixed tints tried are the multiples of TintUnit up to 100
TintUnit == 60
\* the title typed has at most MaxTitleLen pieces
MaxTitleLen == 2

TintChoices == {t \in 0..100 : t % TintUnit = 0}

NumV(sel) == Cardinality({n \in Colours : IsV(sel[n])})

Script(w, h, sel, med, st, title) ==
    [width |-> w, height |-> h, sel |-> sel, median |-> med, step |-> st,
     title |-> title]

\* the defaults offered by the prompts (lines 85-86, 104-106, 115-116, 125)
DefaultSel ==
    [n \in Colours |->
        IF n \in {"Cyan", "Black"} THEN Variable
        ELSE IF n = "Yellow" THEN Fixed(30) ELSE Fixed(0)]

\* family 1: every selection of fixed tints and 'v', one low and one high median
ColourScripts ==
    {Script(444, 316, sel, SubSeq(<<20, 90>>, 1, Min(2, NumV(sel))), 9, <<"Test">>) :
        sel \in [Colours -> {Fixed(t) : t \in TintChoices} \cup {Variable}]}

\* family 2: every median and every step on the default selections
SweepScripts ==
    {Script(444, 316, DefaultSel, <<m, 85>>, st, <<"Test">>) :
        m \in 0..100, st \in 1..9}

Titles == UNION {[1..n -> {" ", "T"}] : n \in 0..MaxTitleLen}

\* family 3: page sizes around the degenerate ones, titles with blanks
PageScripts ==
    {Script(w, h, sel, SubSeq(<<65, 85>>, 1, NumV(sel)), 3, t) :
        w \in {60, 70, 71, 444}, h \in {60, 70, 71, 316},
        sel \in {DefaultSel,
                 [DefaultSel EXCEPT !["Cyan"] = Fixed(0), !["Black"] = Fixed(0)],
                 [DefaultSel EXCEPT !["Cyan"] = Fixed(0), !["Black"] = Fixed(0),
                                    !["Yellow"] = Fixed(0)],
                 [DefaultSel EXCEPT !["Cyan"] = Fixed(0), !["Black"] = Fixed(0),
                                    !["Yellow"] = Fixed(0), !["Grey"] = Fixed(40)]},
        t \in Titles}

Scripts == ColourScripts \cup SweepScripts \cup PageScripts

\* the state as create_swatch_pdf starts
Init ==
    /\ answers \in Scripts
    /\ pc = "setup"
    /\ colour_idx = 1
    /\ docwidthmm = 0
    /\ docheightmm = 0
    /\ colour_inputs = [n \in {} |-> 0]
    /\ variable_colours_data = <<>>
    /\ step_val = 0
    /\ messages = <<>>
    /\ rects = [rc \in {} |-> 0]
    /\ texts = <<>>
    /\ op = <<>>

Spec == Init /\ [][Next]_vars

----------------------------------------------------------------------------
(* overprint_layer on its own: a chain of calls on arbitrary colours.      *)

\* at most MaxCalls calls are chained
MaxCalls == 2

StartQuads == [1..4 -> {0, 650, Cap}]
OverprintTints == {0, 50, 100}

InitOverprint ==
    /\ Init
    /\ answers = Script(444, 316, DefaultSel, <<65, 85>>, 3, <<"Test">>)

\* one call of overprint_layer (lines 57-79) on the result of the previous one
OverprintCall ==
    /\ Len(op) < MaxCalls
    /\ \E n \in Colours, tint \in OverprintTints,
          cur \in (IF op = <<>> THEN StartQuads ELSE {op[Len(op)].new}) :
          op' = Append(op, [cur |-> cur, base |-> CMYK_DEFINITIONS[n], tint |-> tint,
                            new |-> overprint_layer(cur, CMYK_DEFINITIONS[n], tint)])
    /\ UNCHANGED <<answers, pc, colour_idx, docwidthmm, docheightmm, colour_inputs,
                   variable_colours_data, step_val, messages, rects, texts>>

NextOverprint == OverprintCall

SpecOverprint == InitOverprint /\ [][NextOverprint]_vars

----------------------------------------------------------------------------
(* overprint_layer in the doubles of the build.  A double d >= 0 below 256 *)
(* that is a multiple of 2^-53 is the integer d * 2^53, held as            *)
(* hi * 2^30 + lo.  Every percentage the program computes is such a number.*)

DoubleBase == 1024 * 1024 * 1024

\* 2^23: hi of the double 1.0
DoubleOne == 8 * 1024 * 1024

DNorm(h, l) == [hi |-> h + (l \div DoubleBase), lo |-> l % DoubleBase]

\* the double of a whole number of percent
DInt(n) == [hi |-> n * DoubleOne, lo |-> 0]

DLess(a, b) == (a.hi < b.hi) \/ (a.hi = b.hi /\ a.lo < b.lo)

DLeq(a, b) == (a = b) \/ DLess(a, b)

\* a + b as a real number, unrounded
DExactAdd(a, b) == DNorm(a.hi + b.hi, a.lo + b.lo)

\* the spacing, in units of 2^-53, of the doubles around x: 2^-52 times the
\* power of two at or below x
DUlp(x) ==
    IF x.hi < DoubleOne THEN 1
    ELSE IF x.hi < 2 * DoubleOne THEN 2
    ELSE IF x.hi < 4 * DoubleOne THEN 4
    ELSE IF x.hi < 8 * DoubleOne THEN 8
    ELSE IF x.hi < 16 * DoubleOne THEN 16
    ELSE IF x.hi < 32 * DoubleOne THEN 32
    ELSE IF x.hi < 64 * DoubleOne THEN 64
    ELSE IF x.hi < 128 * DoubleOne THEN 128
    ELSE 256

\* IEEE-754 round to nearest, ties to even, of the real number x
DRound(x) ==
    LET q == DUlp(x)
        r == x.lo % q
        down == x.lo - r
        up == down + q
        even == (down \div q) % 2 = 0
    IN IF q = 1 \/ r = 0 THEN x
       ELSE IF 2 * r < q THEN DNorm(x.hi, down)
       ELSE IF 2 * r > q THEN DNorm(x.hi, up)
       ELSE IF even THEN DNorm(x.hi, down) ELSE DNorm(x.hi, up)

\* the double  0.7 * (t / 100.0) * 100  for t = 0..100 (entry t + 1), lines 68-73
AddSpot ==
    <<
      <<0, 0>>, <<5872025, 644245094>>, <<11744051, 214748364>>, <<17616076, 858993456>>,
      <<23488102, 429496728>>, <<29360127, 1073741820>>, <<35232153, 644245088>>, <<41104179, 214748368>>,
      <<46976204, 858993456>>, <<52848230, 429496728>>, <<58720255, 1073741816>>, <<64592281, 644245096>>,
      <<70464307, 214748352>>, <<76336332, 858993456>>, <<82208358, 429496736>>, <<88080384, 0>>,
      <<93952409, 644245088>>, <<99824435, 214748352>>, <<105696460, 858993456>>, <<111568486, 429496704>>,
      <<117440511, 1073741808>>, <<123312537, 644245088>>, <<129184563, 214748368>>, <<135056588, 858993472>>,
      <<140928614, 429496704>>, <<146800640, 0>>, <<152672665, 644245088>>, <<158544691, 214748352>>,
      <<164416716, 858993472>>, <<170288742, 429496704>>, <<176160768, 0>>, <<182032793, 644245088>>,
      <<187904819, 214748352>>, <<193776844, 858993440>>, <<199648870, 429496704>>, <<205520895, 1073741792>>,
      <<211392921, 644245088>>, <<217264947, 214748384>>, <<223136972, 858993408>>, <<229008998, 429496704>>,
      <<234881023, 1073741792>>, <<240753049, 644245088>>, <<246625075, 214748352>>, <<252497100, 858993440>>,
      <<258369126, 429496736>>, <<264241152, 0>>, <<270113177, 644245120>>, <<275985203, 214748352>>,
      <<281857228, 858993408>>, <<287729254, 429496704>>, <<293601280, 0>>, <<299473305, 644245056>>,
      <<305345331, 214748352>>, <<311217356, 858993472>>, <<317089382, 429496704>>, <<322961408, 0>>,
      <<328833433, 644245120>>, <<334705459, 214748352>>, <<340577484, 858993408>>, <<346449510, 429496704>>,
      <<352321536, 0>>, <<358193561, 644245056>>, <<364065587, 214748352>>, <<369937612, 858993408>>,
      <<375809638, 429496704>>, <<381681663, 1073741760>>, <<387553689, 644245056>>, <<393425715, 214748352>>,
      <<399297740, 858993408>>, <<405169766, 429496640>>, <<411041791, 1073741760>>, <<416913817, 644245056>>,
      <<422785843, 214748352>>, <<428657868, 858993472>>, <<434529894, 429496768>>, <<440401919, 1073741760>>,
      <<446273945, 644244992>>, <<452145971, 214748288>>, <<458017996, 858993408>>, <<463890022, 429496704>>,
      <<469762047, 1073741760>>, <<475634073, 644245056>>, <<481506099, 214748352>>, <<487378124, 858993408>>,
      <<493250150, 429496704>>, <<499122176, 0>>, <<504994201, 644245056>>, <<510866227, 214748352>>,
      <<516738252, 858993472>>, <<522610278, 429496704>>, <<528482304, 0>>, <<534354329, 644245120>>,
      <<540226355, 214748416>>, <<546098380, 858993536>>, <<551970406, 429496704>>, <<557842431, 1073741696>>,
      <<563714457, 644244992>>, <<569586483, 214748288>>, <<575458508, 858993408>>, <<581330534, 429496704>>,
      <<587202560, 0>>
    >>

\* the double  1.0 * (t / 100.0) * 100  for t = 0..100 (entry t + 1), lines 68-73
AddPure ==
    <<
      <<0, 0>>, <<8388608, 0>>, <<16777216, 0>>, <<25165824, 0>>,
      <<33554432, 0>>, <<41943040, 0>>, <<50331648, 0>>, <<58720256, 8>>,
      <<67108864, 0>>, <<75497472, 0>>, <<83886080, 0>>, <<92274688, 0>>,
      <<100663296, 0>>, <<109051904, 0>>, <<117440512, 16>>, <<125829120, 0>>,
      <<134217728, 0>>, <<142606336, 0>>, <<150994944, 0>>, <<159383552, 0>>,
      <<167772160, 0>>, <<176160768, 0>>, <<184549376, 0>>, <<192937984, 0>>,
      <<201326592, 0>>, <<209715200, 0>>, <<218103808, 0>>, <<226492416, 0>>,
      <<234881024, 32>>, <<243269631, 1073741792>>, <<251658240, 0>>, <<260046848, 0>>,
      <<268435456, 0>>, <<276824064, 0>>, <<285212672, 0>>, <<293601280, 0>>,
      <<301989888, 0>>, <<310378496, 0>>, <<318767104, 0>>, <<327155712, 0>>,
      <<335544320, 0>>, <<343932928, 0>>, <<352321536, 0>>, <<360710144, 0>>,
      <<369098752, 0>>, <<377487360, 0>>, <<385875968, 0>>, <<394264576, 0>>,
      <<402653184, 0>>, <<411041792, 0>>, <<419430400, 0>>, <<427819008, 0>>,
      <<436207616, 0>>, <<444596224, 0>>, <<452984832, 0>>, <<461373440, 64>>,
      <<469762048, 64>>, <<478150655, 1073741760>>, <<486539263, 1073741760>>, <<494927872, 0>>,
      <<503316480, 0>>, <<511705088, 0>>, <<520093696, 0>>, <<528482304, 0>>,
      <<536870912, 0>>, <<545259520, 0>>, <<553648128, 0>>, <<562036736, 0>>,
      <<570425344, 0>>, <<578813952, 0>>, <<587202560, 0>>, <<595591168, 0>>,
      <<603979776, 0>>, <<612368384, 0>>, <<620756992, 0>>, <<629145600, 0>>,
      <<637534208, 0>>, <<645922816, 0>>, <<654311424, 0>>, <<662700032, 0>>,
      <<671088640, 0>>, <<679477248, 0>>, <<687865856, 0>>, <<696254464, 0>>,
      <<704643072, 0>>, <<713031680, 0>>, <<721420288, 0>>, <<729808896, 0>>,
      <<738197504, 0>>, <<746586112, 0>>, <<754974720, 0>>, <<763363328, 0>>,
      <<771751936, 0>>, <<780140544, 0>>, <<788529152, 0>>, <<796917760, 0>>,
      <<805306368, 0>>, <<813694976, 0>>, <<822083584, 0>>, <<830472192, 0>>,
      <<838860800, 0>>
    >>

\* lines 68-73: add_c .. add_k for one component of a base (0, 7 or 10 tenths)
LayerAdd(base_i, layer_tint_percent) ==
    LET e == IF base_i = 0 THEN <<0, 0>>
             ELSE IF base_i = 7 THEN AddSpot[layer_tint_percent + 1]
             ELSE AddPure[layer_tint_percent + 1]
    IN [hi |-> e[1], lo |-> e[2]]

\* overprint_layer storing the layer instead of adding it to the current colour
overprint_layer_double_replace(current, layer_cmyk_base, layer_tint_percent) ==
    [i \in 1..4 |->
        LET sum == LayerAdd(layer_cmyk_base[i], layer_tint_percent)
        IN IF DLess(DInt(100), sum) THEN DInt(100) ELSE sum]

\* lines 57-79 in doubles: min(100, base + add), the sum rounded to a double
overprint_layer_double(current, layer_cmyk_base, layer_tint_percent) ==
    [i \in 1..4 |->
        LET sum == DRound(DExactAdd(current[i],
                                    LayerAdd(layer_cmyk_base[i], layer_tint_percent)))
        IN IF DLess(DInt(100), sum) THEN DInt(100) ELSE sum]

\* successive calls of overprint_layer, each on the result of the one before
RECURSIVE ApplyLayers(_, _)
ApplyLayers(current, layers) ==
    IF layers = <<>> THEN current
    ELSE ApplyLayers(overprint_layer_double(current, CMYK_DEFINITIONS[Head(layers).name],
                                            Head(layers).tint),
                     Tail(layers))

\* at most MaxLayers layers are put on one colour
MaxLayers == 2

\* the tints tried are the multiples of LayerTintUnit up to 100
LayerTintUnit == 28

LayerTints == {t \in 0..100 : t % LayerTintUnit = 0}

LayerChoices == {[name |-> n, tint |-> t] : n \in Colours, t \in LayerTints}

\* the colours the layers are put on: the colour a cell starts from (line 162),
\* every component 50, or the colour a cell has after fixed Orange 30
StartColours ==
    {[i \in 1..4 |-> DInt(v)] : v \in {0, 50}}
    \cup {overprint_layer_double([i \in 1..4 |-> DInt(0)], CMYK_DEFINITIONS["Orange"], 30)}

\* overprint_layer called for each of a sequence of layers (as lines 162-185 do)
OverprintLayers ==
    /\ op = <<>>
    /\ \E cur \in StartColours, n \in 2..MaxLayers :
          \E layers \in [1..n -> LayerChoices] :
              op' = <<[cur |-> cur, layers |-> layers, new |-> ApplyLayers(cur, layers)]>>
    /\ UNCHANGED <<answers, pc, colour_idx, docwidthmm, docheightmm, colour_inputs,
                   variable_colours_data, step_val, messages, rects, texts>>

NextLayers == OverprintLayers

SpecLayers == InitOverprint /\ [][NextLayers]_vars

----------------------------------------------------------------------------
(* Properties.                                                             *)

Painted == pc \in {"title", "labels", "save", "done"}

\* the channels answered with a fixed tint above 0, in table order, as layers
FixedLayersOf(sel) ==
    LET used == SelectSeq(colour_order,
                          LAMBDA n : sel[n].kind = "tint" /\ sel[n].tint > 0)
    IN [i \in 1..Len(used) |->
           [base |-> CMYK_DEFINITIONS[used[i]], tint |-> sel[used[i]].tint]]

\* the axis channels: the first two answered 'v', with the tint of each at a position
AxisLayersOf(sel, row, col) ==
    LET req == RequestedVariable(sel)
        At(i, pos) ==
            LET v == variable_colours_data[i].start_val + pos * step_val
            IN [base |-> CMYK_DEFINITIONS[req[i]],
                tint |-> IF v < 0 THEN 0 ELSE IF v > 100 THEN 100 ELSE v]
    IN (IF Len(req) >= 1 THEN <<At(1, col)>> ELSE <<>>)
       \o (IF Len(req) >= 2 THEN <<At(2, row)>> ELSE <<>>)

\* add the layers in order, capping every component at 100 after each addition
RECURSIVE CappedSum(_, _)
CappedSum(cur, layers) ==
    IF layers = <<>> THEN cur
    ELSE CappedSum([i \in 1..4 |->
                       LET sum == cur[i] + Head(layers).base[i] * Head(layers).tint
                       IN IF sum > 1000 THEN 1000 ELSE sum],
                   Tail(layers))

\* C1: the colour painted for every cell (row, col) is (0,0,0,0) plus, in order and
\* capped at 100 after each addition, the fixed tints > 0 of Cyan, Magenta, Yellow,
\* Black, then of Orange, Violet, Grey, then the axis-1 channel at
\* clamp(start1 + col*step), then the axis-2 channel at clamp(start2 + row*step).
C1_CellComposition ==
    Painted =>
        \A row \in 0..10, col \in 0..10 :
            rects[<<row, col>>].cmyk =
                CappedSum(<<0, 0, 0, 0>>,
                          FixedLayersOf(answers.sel) \o AxisLayersOf(answers.sel, row, col))

\* a finished chart with two axes, fixed Magenta and Orange, and a cell whose
\* magenta was cut at 100 while the cell at the origin was not
C1_Witness ==
    /\ pc = "done"
    /\ Len(variable_colours_data) = 2
    /\ answers.sel["Magenta"] = Fixed(60)
    /\ answers.sel["Orange"] = Fixed(60)
    /\ answers.sel["Violet"] = Variable
    /\ rects[<<10, 10>>].cmyk[2] = 1000
    /\ rects[<<0, 0>>].cmyk # rects[<<10, 10>>].cmyk

\* C2: every call of overprint_layer on a colour with components in [0,100] returns
\* components that are at least the current ones and at most 100.
C2_OverprintBounds ==
    \A i \in 1..Len(op) :
        \A k \in 1..4 :
            (op[i].cur[k] >= 0 /\ op[i].cur[k] <= 1000) =>
                (op[i].cur[k] <= op[i].new[k] /\ op[i].new[k] <= 1000
                 /\ op[i].new[k] >= 0)

\* a layer that was cut at 100 on a component, followed by a layer that adds to
\* the same component and leaves it at 100
C2_Witness ==
    /\ Len(op) = 2
    /\ \E k \in 1..4 :
          /\ op[1].cur[k] < 1000
          /\ op[1].cur[k] + op[1].base[k] * op[1].tint > 1000
          /\ op[1].new[k] = 1000
          /\ op[2].base[k] * op[2].tint > 0
          /\ op[2].new[k] = 1000

\* the channels prompted so far that were answered 'v', in prompt order
RequestedSoFar ==
    SelectSeq(SubSeq(colour_order, 1, colour_idx - 1),
              LAMBDA n : IsV(answers.sel[n]))

\* C3: at every point at most two channels are recorded as variable; they are the
\* first two answered 'v', in that order; every later 'v' is no axis, has the
\* fixed tint 0 as its selection and is reported by one informational message,
\* and the prompts go on to the last channel.
C3_AtMostTwoAxes ==
    LET req == RequestedSoFar
    IN /\ Len(variable_colours_data) <= 2
       /\ [i \in 1..Len(variable_colours_data) |-> variable_colours_data[i].name]
              = SubSeq(req, 1, IF Len(req) < 2 THEN Len(req) ELSE 2)
       /\ \A i \in 3..Len(req) : colour_inputs[req[i]].value = Fixed(0)
       /\ [i \in 1..Len(messages) |-> messages[i].name] = SubSeq(req, 3, Len(req))
       /\ DOMAIN colour_inputs = {colour_order[i] : i \in 1..(colour_idx - 1)}
       /\ (pc \notin {"setup", "colours"}) => DOMAIN colour_inputs = Colours

\* Cyan, Black and Orange answered 'v': Cyan and Black are the axes, Orange is 0
C3_Witness ==
    /\ pc = "done"
    /\ answers.sel["Cyan"] = Variable
    /\ answers.sel["Black"] = Variable
    /\ answers.sel["Orange"] = Variable
    /\ variable_colours_data[1].name = "Cyan"
    /\ variable_colours_data[2].name = "Black"
    /\ colour_inputs["Orange"].value = Fixed(0)
    /\ Len(messages) >= 1
    /\ messages[1].name = "Orange"

StartsDone == pc \in {"grid", "title", "labels", "save", "done"}

\* C4: the start value of every variable axis is 100 - 10*S if M + 5*S > 100,
\* else 0 if M - 5*S < 0, else M - 5*S.
C4_StartPrecedence ==
    StartsDone =>
        \A i \in 1..Len(variable_colours_data) :
            LET M == variable_colours_data[i].median_tint
                S == step_val
            IN variable_colours_data[i].start_val =
                  (IF M + 5 * S > 100 THEN 100 - 10 * S
                   ELSE IF M - 5 * S < 0 THEN 0
                   ELSE M - 5 * S)

\* medians 65 and 85 with step 3 give the starts 50 and 70
C4_Witness ==
    /\ pc = "done"
    /\ Len(variable_colours_data) = 2
    /\ step_val = 3
    /\ variable_colours_data[1].median_tint = 65
    /\ variable_colours_data[1].start_val = 50
    /\ variable_colours_data[2].median_tint = 85
    /\ variable_colours_data[2].start_val = 70

\* the value labels drawn for an axis, in drawing order
ValueTexts(role) ==
    LET drawn == SelectSeq(texts, LAMBDA t : t.role = role)
    IN [k \in 1..Len(drawn) |-> drawn[k].text]

\* C5: each of the 11 values start + i*S of a variable axis lies in [0,100], so
\* the 11 values labelled are non-decreasing and consecutive ones differ by S.
C5_SweepInRange ==
    /\ StartsDone =>
          \A a \in 1..Len(variable_colours_data) :
              \A i \in 0..10 :
                  /\ variable_colours_data[a].start_val + i * step_val >= 0
                  /\ variable_colours_data[a].start_val + i * step_val <= 100
    /\ pc = "done" =>
          /\ Len(variable_colours_data) >= 1 =>
                ValueTexts("x-value") =
                    [k \in 1..11 |->
                        <<ToString(variable_colours_data[1].start_val
                                   + (k - 1) * step_val)>>]
          /\ Len(variable_colours_data) >= 2 =>
                ValueTexts("y-value") =
                    [k \in 1..11 |->
                        <<ToString(variable_colours_data[2].start_val
                                   + (k - 1) * step_val)>>]

\* median 100 and step 9: the sweep starts at 10 and ends on 100
C5_Witness ==
    /\ pc = "done"
    /\ Len(variable_colours_data) = 2
    /\ step_val = 9
    /\ variable_colours_data[1].median_tint = 100
    /\ variable_colours_data[1].start_val = 10
    /\ ValueTexts("x-value")[11] = <<"100">>

\* C6: no rectangle with a non-positive width or height is ever painted (a page
\* too small for the grid is refused and no fill-rectangle command is emitted).
C6_NoDegenerateRect ==
    \A rc \in DOMAIN rects :
        Less(Zero, rects[rc].width) /\ Less(Zero, rects[rc].height)

\* the two lengths the tiling claim names
C7_Spacing == Pts(11, 33858270)
C7_Offset == Pts(42, 51968500)

YValueLabels == SelectSeq(texts, LAMBDA t : t.role = "y-value")

\* C8: with two variable channels the axis-2 label of row r shows the tint
\* clamp(start2 + r*step) of that row, and the label of a higher row is placed
\* higher on the page, as its box is.
C8_LabelsRunUpward ==
    (pc = "done" /\ Len(variable_colours_data) = 2) =>
        /\ Len(YValueLabels) = 11
        /\ \A r \in 0..10 :
              YValueLabels[r + 1].text =
                  <<ToString(Clamp(variable_colours_data[2].start_val + r * step_val))>>
        /\ \A r1 \in 0..10, r2 \in 0..10 :
              r1 < r2 =>
                  /\ Less(rects[<<r1, 0>>].y, rects[<<r2, 0>>].y)
                  /\ Less(YValueLabels[r1 + 1].y, YValueLabels[r2 + 1].y)

\* the pieces between the first and the last piece that is not white space
Trimmed(t) ==
    LET solid == {i \in 1..Len(t) : t[i] # " "}
    IN IF solid = {} THEN <<>>
       ELSE SubSeq(t, CHOOSE i \in solid : \A j \in solid : i <= j,
                      CHOOSE i \in solid : \A j \in solid : j <= i)

\* prefix, title text and entries as the claim composes them from the answers
ComposedTitle(sel, text) ==
    LET Shown(n) == sel[n].kind = "tint" /\ sel[n].tint > 0
        shown == SelectSeq(colour_order, Shown)
    IN (IF \E n \in {"Orange", "Violet", "Grey"} : Shown(n)
        THEN <<"VOG", " ">> ELSE <<>>)
       \o text
       \o Concat([i \in 1..Len(shown) |->
                     <<" ", shown[i], "=", ToString(sel[shown[i]].tint), "%">>])

TitleDrawn == SelectSeq(texts, LAMBDA t : t.role = "title")

\* C9 as stated: the drawn title is the prefix "VOG " iff a spot channel has a
\* fixed tint > 0, then the title text typed, then one entry per non-variable
\* channel of tint > 0 in table order.
C9_TitleAsTyped ==
    pc = "done" =>
        /\ Len(TitleDrawn) = 1
        /\ TitleDrawn[1].text = ComposedTitle(answers.sel, answers.title)

\* C9 amended: the same composition, with "Swatch Chart" standing for an empty
\* title text and with the white space at both ends of the result removed.
C9_TitleStripped ==
    pc = "done" =>
        /\ Len(TitleDrawn) = 1
        /\ TitleDrawn[1].text =
              Trimmed(ComposedTitle(answers.sel,
                                    IF answers.title = <<>>
                                    THEN <<"Swatch", " ", "Chart">>
                                    ELSE answers.title))

\* a title typed with a leading blank, drawn without it, after a Grey entry
C9_Witness ==
    /\ pc = "done"
    /\ answers.title = <<" ", "T">>
    /\ answers.sel["Grey"] = Fixed(40)
    /\ TitleDrawn[1].text = <<"VOG", " ", " ", "T", " ", "Grey", "=", "40", "%">>

Roles == {texts[i].role : i \in 1..Len(texts)}

\* C10: with no variable channel all 121 cells have the same colour and no axis
\* name or value is drawn; with exactly one, only the axis-1 name and its 11
\* values are drawn and the colour of a cell does not depend on its row.
C10_FewerAxes ==
    /\ (Painted /\ NumV(answers.sel) = 0) =>
          \A rc \in DOMAIN rects : rects[rc].cmyk = rects[<<0, 0>>].cmyk
    /\ (Painted /\ NumV(answers.sel) = 1) =>
          \A rc \in DOMAIN rects : rects[rc].cmyk = rects[<<0, rc[2]>>].cmyk
    /\ (pc = "done" /\ NumV(answers.sel) = 0) => Roles = {"title"}
    /\ (pc = "done" /\ NumV(answers.sel) = 1) =>
          /\ Roles = {"title", "x-name", "x-value"}
          /\ Len(texts) = 13
          /\ Len(SelectSeq(texts, LAMBDA t : t.role = "x-name")) = 1

\* one variable channel: the colour changes along a row and 13 texts are drawn
C10_Witness ==
    /\ pc = "done"
    /\ NumV(answers.sel) = 1
    /\ rects[<<0, 0>>].cmyk # rects[<<0, 10>>].cmyk
    /\ Len(texts) = 13

\* no variable channel: the title is the only text
C10_WitnessNone ==
    /\ pc = "done"
    /\ NumV(answers.sel) = 0
    /\ Len(texts) = 1

\* the orders in which n layers can be applied
Orders(n) == {f \in [1..n -> 1..n] : \A i \in 1..n, j \in 1..n : i # j => f[i] # f[j]}

Reorder(layers, f) == [i \in 1..Len(layers) |-> layers[f[i]]]

\* a and b differ by at most tol units of 2^-53
DWithin(a, b, tol) ==
    /\ DLeq(a, DExactAdd(b, [hi |-> 0, lo |-> tol]))
    /\ DLeq(b, DExactAdd(a, [hi |-> 0, lo |-> tol]))

\* min(100, cur + the contributions of the layers) on component k, as a real
\* number: the contributions are not negative, so the sum is 100 or more as soon
\* as a partial sum is
RECURSIVE CappedExactSum(_, _, _)
CappedExactSum(cur_k, layers, k) ==
    IF layers = <<>> THEN cur_k
    ELSE LET add == LayerAdd(CMYK_DEFINITIONS[Head(layers).name][k], Head(layers).tint)
             sum == DExactAdd(cur_k, add)
         IN CappedExactSum(IF DLess(DInt(100), sum) THEN DInt(100) ELSE sum,
                           Tail(layers), k)

\* C11 as stated: overprint(overprint(cur, A, a), B, b) =
\* overprint(overprint(cur, B, b), A, a), so the result of overprinting the same
\* layers is the same in every order.
C11_CommutesExactly ==
    \A c \in 1..Len(op) :
        \A f \in Orders(Len(op[c].layers)) :
            ApplyLayers(op[c].cur, Reorder(op[c].layers, f)) = op[c].new

\* C11 amended: in the doubles of the build the result of overprinting n layers
\* is, in every order, within n * 2^-47 of min(100, sum of all layer
\* contributions) on every component, so the results of two orders differ by at
\* most n * 2^-46 (2^-45 for two layers).
C11_CommutesToRounding ==
    \A c \in 1..Len(op) :
        \A n \in {Len(op[c].layers)} :
            \A exact \in {[k \in 1..4 |-> CappedExactSum(op[c].cur[k], op[c].layers, k)]} :
                \A f \in Orders(n) :
                    \A other \in {ApplyLayers(op[c].cur, Reorder(op[c].layers, f))} :
                        \A k \in 1..4 :
                            /\ DWithin(other[k], exact[k], n * 64)
                            /\ DWithin(other[k], op[c].new[k], n * 128)
                            /\ DLeq(other[k], DInt(100))

\* two layers of different channels whose two orders give results that differ,
\* in the last places, on the component both channels print on
C11_Witness ==
    /\ Len(op) = 1
    /\ Len(op[1].layers) = 2
    /\ op[1].layers[1].name # op[1].layers[2].name
    /\ \E k \in 1..4 :
          /\ ApplyLayers(op[1].cur, Reorder(op[1].layers, <<2, 1>>))[k] # op[1].new[k]
          /\ DLess(op[1].new[k], DInt(100))
          /\ CMYK_DEFINITIONS[op[1].layers[1].name][k] > 0
          /\ CMYK_DEFINITIONS[op[1].layers[2].name][k] > 0

====
